---- MODULE Spec2Model ----
(***************************************************************************)
(* Simulation core of the "Strange Universe" canvas.                       *)
(*                                                                         *)
(* The repository holds two revisions of the UniverseCanvas component:     *)
(*   build = "multi"  src/src/components/strange-universe/UniverseCanvas.tsx *)
(*                    modes wormhole | portals | infinity                  *)
(*   build = "pair"   src/unnamed/part_001 (the earlier revision)          *)
(*                    modes wormhole | my-wormholes                        *)
(* A session runs one of them; build is fixed by Init.                     *)
(*                                                                         *)
(* Numbers.  The code computes in IEEE doubles.  The model computes in     *)
(* fixed point: one model unit is 1/Scale of a world unit, products and    *)
(* quotients are rounded to the nearest unit, square roots to the nearest  *)
(* unit.  Comparisons of a distance with a threshold are made on the exact *)
(* squares.  Angles are restricted to the camera orientations of Pitches   *)
(* and quarter-turn yaws, whose sines and cosines are tabulated.           *)
(***************************************************************************)
EXTENDS Integers, Sequences, FiniteSets, TLC

Scale == 10 * 10 * 10

\* ------------------------------------------------------------------------
\* Scalar helpers
\* ------------------------------------------------------------------------
Abs(a) == IF a < 0 THEN -a ELSE a

Sign(a) == IF a < 0 THEN -1 ELSE IF a > 0 THEN 1 ELSE 0

\* a / b rounded to the nearest integer (b > 0), halves away from zero
RoundDiv(a, b) == IF a >= 0 THEN (2 * a + b) \div (2 * b)
                            ELSE -((2 * (-a) + b) \div (2 * b))

\* fixed-point product a * b
Mul(a, b) == RoundDiv(a * b, Scale)

\* Newton's iteration from the guess g, whose next guess is h
RECURSIVE SqrtIter(_, _)
SqrtStep(n, g, h) == IF h >= g THEN g ELSE SqrtIter(n, h)

SqrtIter(n, g) ==
  CHOOSE r \in {SqrtStep(n, v, (v + n \div v) \div 2) : v \in {g}} : TRUE

\* floor of the square root of n >= 0
ISqrt(n) == IF n < 2 THEN n ELSE SqrtIter(n, n)

\* r = floor(sqrt(n)) moved to the integer nearest to sqrt(n)
Nearest(n, r) == IF n - r * r > r THEN r + 1 ELSE r

\* square root of n >= 0 rounded to the nearest integer (n is evaluated once)
Sqrt(n) == CHOOSE r \in {Nearest(v, ISqrt(v)) : v \in {n}} : TRUE

\* ------------------------------------------------------------------------
\* THREE.Vector3
\* ------------------------------------------------------------------------
Vec(a, b, c) == [x |-> a, y |-> b, z |-> c]

Zero3 == Vec(0, 0, 0)

VAdd(u, v) == Vec(u.x + v.x, u.y + v.y, u.z + v.z)

VSub(u, v) == Vec(u.x - v.x, u.y - v.y, u.z - v.z)

VNeg(u) == Vec(-u.x, -u.y, -u.z)

\* multiplyScalar(s), s in fixed point
VScale(u, s) == Vec(Mul(u.x, s), Mul(u.y, s), Mul(u.z, s))

\* addScaledVector(v, s)
AddScaled(u, v, s) == VAdd(u, VScale(v, s))

Dot(u, v) == RoundDiv(u.x * v.x + u.y * v.y + u.z * v.z, Scale)

LenSq(u) == u.x * u.x + u.y * u.y + u.z * u.z

Length(u) == Sqrt(LenSq(u))

\* divideScalar(len || 1)
DivideScalar(u, len) ==
  IF len = 0 THEN u
  ELSE Vec(RoundDiv(u.x * Scale, len), RoundDiv(u.y * Scale, len),
           RoundDiv(u.z * Scale, len))

\* normalize(): divideScalar(length() || 1), so the zero vector stays zero
Normalize(u) ==
  CHOOSE r \in {DivideScalar(v, Length(v)) : v \in {u}} : TRUE

\* crossVectors(a, b)
Cross(a, b) == Vec(RoundDiv(a.y * b.z - a.z * b.y, Scale),
                   RoundDiv(a.z * b.x - a.x * b.z, Scale),
                   RoundDiv(a.x * b.y - a.y * b.x, Scale))

Max(a, b) == IF a > b THEN a ELSE b

Min(a, b) == IF a < b THEN a ELSE b

\* ------------------------------------------------------------------------
\* Bounds of the model
\* ------------------------------------------------------------------------
\* most projectiles thrown in one mode
MaxThrown == 2

\* most portals placed of each role
MaxPortals == 2

\* spheres seeded on entering infinity mode (the code seeds 200)
NumSeeds == 1

\* ------------------------------------------------------------------------
\* Program constants (fixed point, world units * Scale)
\* ------------------------------------------------------------------------
HeadHeight == 1500

TeleportThresholdMulti == 2500

TeleportThresholdPair == 3500

ClearanceMargin == 1000

EmergeOffset == 1000

PortalSize == 4000

PortalAhead == 3000

GravityY == 10

GroundLevel == 0

BounceFactor == 300

SnapSpeed == 50

RestitutionMulti == 1800

RestitutionPair == 1000

EntranceX == 0

EntranceY == 5000

EntranceZ == 25000

CameraFloor == 1000

BoundaryPair == 45000

\* ------------------------------------------------------------------------
\* Camera orientation: controls.rotation = {x: pitch, y: yaw}
\* ------------------------------------------------------------------------
\* "tilt" is the initial rotation.x = -0.2, "level" is rotation.x = 0
Pitches == {"tilt", "level"}

Yaws == 0 .. 3

PitchSin(p) == IF p = "tilt" THEN -199 ELSE 0

PitchCos(p) == IF p = "tilt" THEN 980 ELSE Scale

\* sine and cosine of a quarter-turn yaw k * pi / 2
YawSin(k) == IF k = 1 THEN Scale ELSE IF k = 3 THEN -Scale ELSE 0

YawCos(k) == IF k = 0 THEN Scale ELSE IF k = 2 THEN -Scale ELSE 0

\* the camera offset from its look-at point
CameraOffset(rot, distance) ==
  Vec(Mul(distance, Mul(YawSin(rot.y), PitchCos(rot.x))),
      Mul(distance, PitchSin(rot.x)),
      Mul(distance, Mul(YawCos(rot.y), PitchCos(rot.x))))

\* camera.getWorldDirection after the frame placed the camera at
\* lookAt + offset (raised to the camera floor in portals mode) and aimed it
\* at lookAt
RaiseTo(p, floor) == [p EXCEPT !.y = Max(@, floor)]

CameraDirFollow(pos, rot, distance, floor) ==
  LET lookAtPoint == VAdd(pos, Vec(0, HeadHeight, 0))
      raw == VAdd(lookAtPoint, CameraOffset(rot, distance))
  IN  Normalize(VSub(lookAtPoint,
                     IF floor THEN RaiseTo(raw, CameraFloor) ELSE raw))

\* camera.getWorldDirection in the tunnel mode: the camera orbits the origin
CameraDirOrbit(rot, distance) == Normalize(VNeg(CameraOffset(rot, distance)))

\* a new PerspectiveCamera looks down -z
DefaultCameraDir == Vec(0, 0, -Scale)

\* the direction the portal is put from the character: the negated world
\* direction of the character group, whose rotation.y is yaw + pi
FacingDir(yaw) == Vec(YawSin(yaw), 0, YawCos(yaw))

\* ------------------------------------------------------------------------
\* Character movement
\* ------------------------------------------------------------------------
MoveSpeed(isInfinity) == IF isInfinity THEN Scale ELSE 200

\* if (keysPressed[k]) characterPosition.addScaledVector(dir, s)
KeyStep(held, dir, s, pos) == IF held THEN AddScaled(pos, dir, s) ELSE pos

\* animate, multi build: w/s/a/d along the camera direction (flattened and
\* renormalised outside infinity mode) and the normalised strafe axis,
\* shift/control vertical in infinity mode
MoveCharacterMulti(pos, keys, dir, isInfinity) ==
  LET camDirection == IF isInfinity THEN dir
                      ELSE Normalize(Vec(dir.x, 0, dir.z))
      strafeDirection == Normalize(Cross(Vec(0, Scale, 0), camDirection))
      ms == MoveSpeed(isInfinity)
      up == Vec(0, Scale, 0)
  IN  KeyStep(isInfinity /\ "control" \in keys, up, -ms,
        KeyStep(isInfinity /\ "shift" \in keys, up, ms,
          KeyStep("d" \in keys, strafeDirection, -ms,
            KeyStep("a" \in keys, strafeDirection, ms,
              KeyStep("s" \in keys, camDirection, -ms,
                KeyStep("w" \in keys, camDirection, ms, pos))))))

\* animate, pair build: the camera direction is flattened and renormalised,
\* the strafe axis is not normalised and a/d have the opposite signs
MoveCharacterPair(pos, keys, dir) ==
  LET camDirection == Normalize(Vec(dir.x, 0, dir.z))
      strafeDirection == Cross(Vec(0, Scale, 0), camDirection)
      ms == MoveSpeed(FALSE)
  IN  KeyStep("d" \in keys, strafeDirection, ms,
        KeyStep("a" \in keys, strafeDirection, -ms,
          KeyStep("s" \in keys, camDirection, -ms,
            KeyStep("w" \in keys, camDirection, ms, pos))))

\* ------------------------------------------------------------------------
\* Toroidal wrap (infinity mode)
\* ------------------------------------------------------------------------
\* if (c > halfWorld) c = -halfWorld; if (c < -halfWorld) c = halfWorld
WrapCoord(c, halfWorld) ==
  LET c1 == IF c > halfWorld THEN -halfWorld ELSE c
  IN  IF c1 < -halfWorld THEN halfWorld ELSE c1

WrapXZ(p, halfWorld) ==
  [p EXCEPT !.x = WrapCoord(p.x, halfWorld), !.z = WrapCoord(p.z, halfWorld)]

HalfWorld(universeSize) == RoundDiv(universeSize, 2)

\* ------------------------------------------------------------------------
\* Teleportation
\* ------------------------------------------------------------------------
HeadOf(pos) == VAdd(pos, Vec(0, HeadHeight, 0))

\* some coordinate of u is d or more in magnitude, so its length is too
Beyond(u, d) == Abs(u.x) >= d \/ Abs(u.y) >= d \/ Abs(u.z) >= d

\* length() < d, on the squares (which are formed only where they are small)
Shorter(u, d) == ~Beyond(u, d) /\ LenSq(u) < d * d

\* distanceTo(q) < d
Nearer(p, q, d) == Shorter(VSub(p, q), d)

\* distanceTo(q) > d
Farther(p, q, d) ==
  LET u == VSub(p, q) IN Beyond(u, d + 1) \/ LenSq(u) > d * d

\* the first portal of the list within the threshold of ref, or 0
RECURSIVE FirstHit(_, _, _)
FirstHit(ref, portals, i) ==
  IF i > Len(portals) THEN 0
  ELSE IF Nearer(ref, portals[i].pos, TeleportThresholdMulti) THEN i
  ELSE FirstHit(ref, portals, i + 1)

\* which role's portal an Armed entity at ref triggers in the multi build:
\* entrances are tried first, and only if an exit exists; then exits, only
\* if an entrance exists
TriggerMulti(ref, entrancePortals, exitPortals) ==
  IF Len(exitPortals) > 0 /\ FirstHit(ref, entrancePortals, 1) # 0
    THEN "entrance"
  ELSE IF Len(entrancePortals) > 0 /\ FirstHit(ref, exitPortals, 1) # 0
    THEN "exit"
  ELSE "none"

\* copy(portal.position).add(new THREE.Vector3(0, 0, 1))
EmergeAt(portal) == VAdd(portal.pos, Vec(0, 0, EmergeOffset))

\* a re-arm distance without the margin
RearmWithoutMargin == TeleportThresholdMulti

RearmDistanceMulti == TeleportThresholdMulti + ClearanceMargin

\* clearOfAllPortals: no portal at distance <= teleportThreshold + 1
ClearOfAllPortals(ref, allPortals) ==
  \A i \in 1 .. Len(allPortals) :
    Farther(ref, allPortals[i].pos, RearmDistanceMulti)

\* exitPortals[Math.floor(Math.random() * exitPortals.length)], the random
\* number given as pick
PickOf(portals, pick) == portals[((pick - 1) % Len(portals)) + 1]

\* a teleport that forgets "teleportCooldown.current = true"
RelocatedStillArmed(pos, via, to) ==
  [pos |-> pos, armed |-> TRUE, what |-> "teleport", via |-> via, to |-> to]

\* the entity put at pos with "teleportCooldown.current = true" (character) or
\* "obj.canTeleport = false" (projectile); via: the role of the endpoint that
\* triggered, to: the index of the target among the endpoints of the other
\* role
Relocated(pos, via, to) ==
  [pos |-> pos, armed |-> FALSE, what |-> "teleport", via |-> via, to |-> to]

\* "teleportCooldown.current = false" (character), "obj.canTeleport = true"
Rearmed(pos) ==
  [pos |-> pos, armed |-> TRUE, what |-> "rearm", via |-> "none", to |-> 0]

\* the teleport block left the entity as it was
NoTeleport(pos, armed) ==
  [pos |-> pos, armed |-> armed, what |-> "none", via |-> "none", to |-> 0]

\* the index Math.floor(Math.random() * portals.length) + 1
PickIndex(portals, pick) == ((pick - 1) % Len(portals)) + 1

\* the teleport block for one entity of the multi build.  armed: the entity
\* may teleport; ref: the point tested (head or centre).  The result gives
\* the new position, the new armed flag and what happened.
TeleportMulti(pos, ref, armed, entrancePortals, exitPortals, pick) ==
  LET trig == TriggerMulti(ref, entrancePortals, exitPortals)
  IN  IF armed
        THEN IF trig = "entrance"
               THEN Relocated(EmergeAt(PickOf(exitPortals, pick)), "entrance",
                              PickIndex(exitPortals, pick))
             ELSE IF trig = "exit"
               THEN Relocated(EmergeAt(PickOf(entrancePortals, pick)), "exit",
                              PickIndex(entrancePortals, pick))
             ELSE NoTeleport(pos, TRUE)
        ELSE IF ClearOfAllPortals(ref, entrancePortals \o exitPortals)
               THEN Rearmed(pos)
             ELSE NoTeleport(pos, FALSE)

EntrancePosition == Vec(EntranceX, EntranceY, -EntranceZ)

ExitPosition(wormholeExit) == Vec(wormholeExit.x, EntranceY, wormholeExit.z)

RearmDistancePair == TeleportThresholdPair + ClearanceMargin

\* both wormholes farther than teleportThreshold + 1
ClearOfBoth(ref, exitPosition) ==
  /\ Farther(ref, EntrancePosition, RearmDistancePair)
  /\ Farther(ref, exitPosition, RearmDistancePair)

\* the character teleportation of the pair build: the character keeps its
\* height and takes the x and z of the other wormhole
TeleportCharPair(pos, armed, exitPosition) ==
  IF armed
    THEN IF Nearer(HeadOf(pos), EntrancePosition, TeleportThresholdPair)
           THEN Relocated(Vec(exitPosition.x, pos.y, exitPosition.z),
                          "entrance", 1)
         ELSE IF Nearer(HeadOf(pos), exitPosition, TeleportThresholdPair)
           THEN Relocated(Vec(EntrancePosition.x, pos.y, EntrancePosition.z),
                          "exit", 1)
         ELSE NoTeleport(pos, TRUE)
    ELSE IF ClearOfBoth(HeadOf(pos), exitPosition) THEN Rearmed(pos)
         ELSE NoTeleport(pos, FALSE)

\* the projectile teleportation of the pair build: the projectile emerges at
\* the other wormhole plus its velocity
TeleportObjPair(pos, vel, armed, exitPosition) ==
  IF armed
    THEN IF Nearer(pos, EntrancePosition, TeleportThresholdPair)
           THEN Relocated(VAdd(exitPosition, vel), "entrance", 1)
         ELSE IF Nearer(pos, exitPosition, TeleportThresholdPair)
           THEN Relocated(VAdd(EntrancePosition, vel), "exit", 1)
         ELSE NoTeleport(pos, TRUE)
    ELSE IF ClearOfBoth(pos, exitPosition) THEN Rearmed(pos)
         ELSE NoTeleport(pos, FALSE)

\* ------------------------------------------------------------------------
\* Projectiles: ThrownObject = [pos, vel, r, canTeleport]
\* ------------------------------------------------------------------------
Gravity == Vec(0, -GravityY, 0)

BounceWithoutFloor(vy) == Mul(vy, -BounceFactor)

\* velocity.y *= -0.3, snapped to 0 below 0.05
Bounce(vy) ==
  LET b == Mul(vy, -BounceFactor)
  IN  IF Abs(b) < SnapSpeed THEN 0 ELSE b

IntegrateThenGravity(o) ==
  LET v1 == IF o.pos.y > GroundLevel + o.r THEN VAdd(o.vel, Gravity)
            ELSE o.vel
      p1 == VAdd(o.pos, o.vel)
  IN  IF p1.y < GroundLevel + o.r
        THEN [o EXCEPT !.pos = [p1 EXCEPT !.y = GroundLevel + o.r],
                       !.vel = [v1 EXCEPT !.y = Bounce(v1.y)]]
        ELSE [o EXCEPT !.pos = p1, !.vel = v1]

\* the integration of one projectile, multi build: gravity while the centre
\* is above groundLevel + radius, then the velocity, then the ground clamp
IntegrateMulti(o) ==
  LET v1 == IF o.pos.y > GroundLevel + o.r THEN VAdd(o.vel, Gravity)
            ELSE o.vel
      p1 == VAdd(o.pos, v1)
  IN  IF p1.y < GroundLevel + o.r
        THEN [o EXCEPT !.pos = [p1 EXCEPT !.y = GroundLevel + o.r],
                       !.vel = [v1 EXCEPT !.y = Bounce(v1.y)]]
        ELSE [o EXCEPT !.pos = p1, !.vel = v1]

\* one horizontal axis of the pair build's world boundary:
\* [coordinate, velocity] after the clamp
BoundaryAxis(c, v, r) ==
  IF c + r > BoundaryPair THEN <<BoundaryPair - r, Mul(v, -500)>>
  ELSE IF c - r < -BoundaryPair THEN <<-BoundaryPair + r, Mul(v, -500)>>
  ELSE <<c, v>>

\* the integration of one projectile, pair build: gravity, velocity, world
\* boundary, ground contact with horizontal damping
IntegratePair(o) ==
  LET v1 == IF o.pos.y > GroundLevel + o.r THEN VAdd(o.vel, Gravity)
            ELSE o.vel
      p1 == VAdd(o.pos, v1)
      bx == BoundaryAxis(p1.x, v1.x, o.r)
      bz == BoundaryAxis(p1.z, v1.z, o.r)
      p2 == Vec(bx[1], p1.y, bz[1])
      v2 == Vec(bx[2], v1.y, bz[2])
  IN  IF p2.y < GroundLevel + o.r
        THEN [o EXCEPT !.pos = [p2 EXCEPT !.y = GroundLevel + o.r],
                       !.vel = Vec(Mul(v2.x, 800), Bounce(v2.y), Mul(v2.z, 800))]
        ELSE [o EXCEPT !.pos = p2, !.vel = v2]

\* the body of "if (dist < radiiSum)": half the overlap each along the
\* normal, and for an approaching pair (speed < 0) the impulse
\* -speed * restitution along the normal
Separate(obj1, obj2, normal, overlap, speed, restitution) ==
  LET separationVec == VScale(normal, Mul(overlap, 500))
      push == IF speed < 0 THEN VScale(normal, Mul(-speed, restitution))
              ELSE Zero3
  IN  << [obj1 EXCEPT !.pos = VAdd(@, separationVec), !.vel = VAdd(@, push)],
         [obj2 EXCEPT !.pos = VSub(@, separationVec), !.vel = VSub(@, push)] >>

\* speed = vRel.dot(normal)
ApproachSpeed(obj1, obj2, normal) == Dot(VSub(obj1.vel, obj2.vel), normal)

Collide(obj1, obj2, normal, overlap, restitution) ==
  Separate(obj1, obj2, normal, overlap, ApproachSpeed(obj1, obj2, normal),
           restitution)

\* the body of the pairwise collision loop for obj1 = objects[i] and
\* obj2 = objects[j]
ResolvePair(obj1, obj2, restitution) ==
  LET distVec == VSub(obj1.pos, obj2.pos)
      radiiSum == obj1.r + obj2.r
  IN  IF Shorter(distVec, radiiSum)
        THEN Collide(obj1, obj2, Normalize(distVec),
                     radiiSum - Length(distVec), restitution)
        ELSE << obj1, obj2 >>

\* objects[i] and objects[j] replaced by the resolved pair
PutPair(objects, i, j, pr) == [objects EXCEPT ![i] = pr[1], ![j] = pr[2]]

\* for (j = i + 1; j < objects.length; j++)
RECURSIVE CollideInner(_, _, _, _)
CollideInner(objects, i, j, restitution) ==
  IF j > Len(objects) THEN objects
  ELSE CollideInner(PutPair(objects, i, j,
                            ResolvePair(objects[i], objects[j], restitution)),
                    i, j + 1, restitution)

WrapNoObject(objects, i, wrap, halfWorld) == objects

\* if (isInfinity) the toroidal wrap of objects[i]
WrapObject(objects, i, wrap, halfWorld) ==
  IF wrap THEN [objects EXCEPT ![i].pos = WrapXZ(@, halfWorld)] ELSE objects

\* for (i = 0; i < objects.length; i++): the inner loop, then in infinity
\* mode (wrap) the toroidal wrap of objects[i]
RECURSIVE CollideOuter(_, _, _, _, _)
CollideOuter(objects, i, restitution, wrap, halfWorld) ==
  IF i > Len(objects) THEN objects
  ELSE CollideOuter(
         WrapObject(CollideInner(objects, i, i + 1, restitution), i, wrap,
                    halfWorld),
         i + 1, restitution, wrap, halfWorld)

\* ------------------------------------------------------------------------
\* State
\* ------------------------------------------------------------------------
VARIABLES
  build,              \* which revision of UniverseCanvas runs: "multi" | "pair"
  universeType,       \* the universeType prop
  config,             \* the config prop: ballSize, universeSize, distance
  wormholeExit,       \* the wormholeExit prop of the pair build: [x, z]
  characterPosition,  \* characterPosition.current
  teleportCooldown,   \* teleportCooldown.current
  keysPressed,        \* the movement keys held in keysPressed.current
  rotation,           \* controls.rotation: [x: pitch, y: yaw]
  camDir,             \* the camera's world direction, as the last frame left it
  charYaw,            \* characterRef.current.rotation.y - pi, as a yaw
  thrownObjects,      \* thrownObjectsRef.current
  entrancePortals,    \* entrancePortalsRef.current: [pos, yaw]
  exitPortals,        \* exitPortalsRef.current: [pos, yaw]
  events,             \* observation: whether the last step was a frame, and
                      \* what it did to each entity
  history,            \* observation, per entity: teleported before, seen
                      \* clear of every endpoint since
  trip                \* observation, infinity mode: where the character was
                      \* when the keys and the camera last changed, and the
                      \* sum of its per-frame displacements since

vars == << build, universeType, config, wormholeExit, characterPosition,
           teleportCooldown, keysPressed, rotation, camDir, charYaw,
           thrownObjects, entrancePortals, exitPortals, events, history,
           trip >>

\* the movement keys animate reads (q and e turn the camera by 0.02 rad,
\* which is not a modelled orientation; the camera turns by MouseDrag)
MoveKeys == {"w", "s", "a", "d", "shift", "control"}

NoEvent(ref) == [what |-> "none", via |-> "none", to |-> 0, at |-> ref]

NoHistory == [tp |-> 0, clr |-> FALSE]

NoTrip == [from |-> Zero3, sum |-> Zero3]

\* a trip starting where the character is (kept in infinity mode only)
TripFrom(m, pos) == IF m = "infinity" THEN [from |-> pos, sum |-> Zero3]
                    ELSE NoTrip

\* the state as one record, so that a handler can run a frame on the state
\* another handler has just built
State ==
  [build |-> build, universeType |-> universeType, config |-> config,
   wormholeExit |-> wormholeExit, characterPosition |-> characterPosition,
   teleportCooldown |-> teleportCooldown, keysPressed |-> keysPressed,
   rotation |-> rotation, camDir |-> camDir, charYaw |-> charYaw,
   thrownObjects |-> thrownObjects, entrancePortals |-> entrancePortals,
   exitPortals |-> exitPortals, events |-> events, history |-> history,
   trip |-> trip]

Commit(s) ==
  /\ build' = s.build
  /\ universeType' = s.universeType
  /\ config' = s.config
  /\ wormholeExit' = s.wormholeExit
  /\ characterPosition' = s.characterPosition
  /\ teleportCooldown' = s.teleportCooldown
  /\ keysPressed' = s.keysPressed
  /\ rotation' = s.rotation
  /\ camDir' = s.camDir
  /\ charYaw' = s.charYaw
  /\ thrownObjects' = s.thrownObjects
  /\ entrancePortals' = s.entrancePortals
  /\ exitPortals' = s.exitPortals
  /\ events' = s.events
  /\ history' = s.history
  /\ trip' = s.trip

\* the history of one entity after a frame: tp counts its teleports (0, 1,
\* 2 for two or more), clr tells that a frame since its last teleport tested
\* it farther than threshold + 1 from every endpoint (there being one)
NextHistory(h, what, clear) ==
  IF what = "teleport" THEN [tp |-> Min(h.tp + 1, 2), clr |-> FALSE]
  ELSE [tp |-> h.tp, clr |-> h.clr \/ clear]

\* ref is farther than threshold + 1 world unit from every one of endpoints
OutOfBand(ref, endpoints, threshold) ==
  \A q \in endpoints : Farther(ref, q, threshold + Scale)

PortalPositions(s) ==
  {s.entrancePortals[i].pos : i \in 1 .. Len(s.entrancePortals)}
    \cup {s.exitPortals[i].pos : i \in 1 .. Len(s.exitPortals)}

WormholePositions(s) == {EntrancePosition, ExitPosition(s.wormholeExit)}

\* ------------------------------------------------------------------------
\* animate: one frame
\* ------------------------------------------------------------------------
\* the else branch of animate (tunnel mode): only the camera moves
FrameWormhole(s) ==
  [s EXCEPT !.camDir = CameraDirOrbit(s.rotation, s.config.distance),
            !.events = [frame |-> TRUE,
                        char |-> NoEvent(HeadOf(s.characterPosition)),
                        objs |-> [i \in 1 .. Len(s.thrownObjects) |->
                                    NoEvent(s.thrownObjects[i].pos)]]]

\* a step that is not a frame teleports and re-arms nothing
Quiet(s) ==
  [s EXCEPT !.events = [frame |-> FALSE,
                        char |-> NoEvent(HeadOf(s.characterPosition)),
                        objs |-> [i \in 1 .. Len(s.thrownObjects) |->
                                    NoEvent(s.thrownObjects[i].pos)]]]

\* the keys or the camera changed: a new trip starts
Turned(s) == [s EXCEPT !.trip = TripFrom(s.universeType, s.characterPosition)]

EventOf(t, ref) == [what |-> t.what, via |-> t.via, to |-> t.to, at |-> ref]

\* the projectile after its teleport step t
Ported(o, t) == [o EXCEPT !.pos = t.pos, !.canTeleport = t.armed]

\* the character after the movement keys and, in infinity mode, the wrap
CharacterMoved(s) ==
  LET isInfinity == s.universeType = "infinity"
      moved == MoveCharacterMulti(s.characterPosition, s.keysPressed,
                                  s.camDir, isInfinity)
  IN  IF isInfinity THEN WrapXZ(moved, HalfWorld(s.config.universeSize))
      ELSE moved

\* how far the movement keys take the character in this frame
Displacement(s) ==
  VSub(MoveCharacterMulti(s.characterPosition, s.keysPressed, s.camDir,
                          s.universeType = "infinity"),
       s.characterPosition)

\* "if (allPortals.length > 0)": the teleport block for one entity
TeleportBlockMulti(s, pos, ref, armed, pick) ==
  IF Len(s.entrancePortals) + Len(s.exitPortals) > 0
    THEN TeleportMulti(pos, ref, armed, s.entrancePortals, s.exitPortals, pick)
    ELSE NoTeleport(pos, armed)

\* ref is farther than the re-arm distance from every portal, there being one
SeenClearMulti(s, ref) ==
  /\ PortalPositions(s) # {}
  /\ OutOfBand(ref, PortalPositions(s), TeleportThresholdMulti)

\* the projectiles after the teleport steps ot: integration (not in infinity
\* mode), then the collision loop
PhysicsMulti(s, ot) ==
  LET isInfinity == s.universeType = "infinity"
      n == Len(s.thrownObjects)
      ported == [i \in 1 .. n |-> Ported(s.thrownObjects[i], ot[i])]
  IN  CollideOuter(IF isInfinity THEN ported
                   ELSE [i \in 1 .. n |-> IntegrateMulti(ported[i])],
                   1, RestitutionMulti, isInfinity,
                   HalfWorld(s.config.universeSize))

\* the state the frame leaves: wrapped is the character after movement, ct
\* its teleport step, ot the teleport steps of the projectiles
FrameEndMulti(s, wrapped, ct, ot) ==
  LET n == Len(s.thrownObjects)
  IN  [s EXCEPT
        !.characterPosition = ct.pos,
        !.teleportCooldown = ~ct.armed,
        !.thrownObjects = PhysicsMulti(s, ot),
        !.charYaw = s.rotation.y,
        !.camDir = CameraDirFollow(ct.pos, s.rotation, s.config.distance,
                                   s.universeType # "infinity"),
        !.events = [frame |-> TRUE,
                    char |-> EventOf(ct, HeadOf(wrapped)),
                    objs |-> [i \in 1 .. n |->
                               EventOf(ot[i], s.thrownObjects[i].pos)]],
        !.trip = IF s.universeType = "infinity"
                   THEN [@ EXCEPT !.sum = VAdd(@, Displacement(s))]
                   ELSE @,
        !.history = [char |-> NextHistory(s.history.char, ct.what,
                                SeenClearMulti(s, HeadOf(wrapped))),
                     objs |-> [i \in 1 .. n |->
                                NextHistory(s.history.objs[i], ot[i].what,
                                  SeenClearMulti(s, s.thrownObjects[i].pos))]]]

\* the teleport steps of a frame: the character is tested at its head, a
\* projectile at its centre.  picks[0] is the random number drawn for the
\* character, picks[i] the one for objects[i]
FrameTeleportsMulti(s, picks, wrapped) ==
  FrameEndMulti(s, wrapped,
    TeleportBlockMulti(s, wrapped, HeadOf(wrapped), ~s.teleportCooldown,
                       picks[0]),
    [i \in 1 .. Len(s.thrownObjects) |->
      TeleportBlockMulti(s, s.thrownObjects[i].pos, s.thrownObjects[i].pos,
                         s.thrownObjects[i].canTeleport, picks[i])])

\* animate, multi build, portals and infinity modes
FrameMulti(s, picks) == FrameTeleportsMulti(s, picks, CharacterMoved(s))

\* the projectiles of the pair build after integration and their teleport
\* steps ot: the collision loop
PhysicsPair(integrated, ot) ==
  CollideOuter([i \in 1 .. Len(integrated) |-> Ported(integrated[i], ot[i])],
               1, RestitutionPair, FALSE, 0)

SeenClearPair(s, ref) ==
  OutOfBand(ref, WormholePositions(s), TeleportThresholdPair)

FrameEndPair(s, moved, ct, integrated, ot) ==
  LET n == Len(s.thrownObjects)
  IN  [s EXCEPT
        !.characterPosition = ct.pos,
        !.teleportCooldown = ~ct.armed,
        !.thrownObjects = PhysicsPair(integrated, ot),
        !.charYaw = s.rotation.y,
        !.camDir = CameraDirFollow(ct.pos, s.rotation, s.config.distance,
                                   FALSE),
        !.events = [frame |-> TRUE,
                    char |-> EventOf(ct, HeadOf(moved)),
                    objs |-> [i \in 1 .. n |->
                               EventOf(ot[i], integrated[i].pos)]],
        !.history = [char |-> NextHistory(s.history.char, ct.what,
                                SeenClearPair(s, HeadOf(moved))),
                     objs |-> [i \in 1 .. n |->
                                NextHistory(s.history.objs[i], ot[i].what,
                                  SeenClearPair(s, integrated[i].pos))]]]

\* the teleport steps of a frame of the pair build: the character first,
\* each projectile after its integration
FrameTeleportsPair(s, moved, integrated) ==
  FrameEndPair(s, moved,
    TeleportCharPair(moved, ~s.teleportCooldown, ExitPosition(s.wormholeExit)),
    integrated,
    [i \in 1 .. Len(integrated) |->
      TeleportObjPair(integrated[i].pos, integrated[i].vel,
                      integrated[i].canTeleport,
                      ExitPosition(s.wormholeExit))])

\* animate, pair build, my-wormholes mode
FramePair(s) ==
  FrameTeleportsPair(s,
    MoveCharacterPair(s.characterPosition, s.keysPressed, s.camDir),
    [i \in 1 .. Len(s.thrownObjects) |-> IntegratePair(s.thrownObjects[i])])

\* animate
Frame(s, picks) ==
  IF s.build = "multi" /\ s.universeType \in {"portals", "infinity"}
    THEN FrameMulti(s, picks)
  ELSE IF s.build = "pair" /\ s.universeType = "my-wormholes"
    THEN FramePair(s)
  ELSE FrameWormhole(s)

\* ------------------------------------------------------------------------
\* The effect: mount, cleanup, setup
\* ------------------------------------------------------------------------
Modes(b) == IF b = "multi" THEN {"wormhole", "portals", "infinity"}
            ELSE {"wormhole", "my-wormholes"}

InitialRotation == [x |-> "tilt", y |-> 0]

\* the radii and places the seeded spheres are drawn from (the code draws a
\* radius in [1, 4) and a place anywhere in the world)
SeedRadii == {1000, 2000}

SeedSpots == {Vec(-10000, 3000, 0), Vec(10000, 3000, -1500)}

Seed(r, p) == [pos |-> p, vel |-> Zero3, r |-> r, canTeleport |-> FALSE]

SeedLists == [1 .. NumSeeds -> {Seed(r, p) : r \in SeedRadii, p \in SeedSpots}]

\* a cleanup that drops the projectiles and keeps the portals
CleanupOfProjectiles(s) ==
  [s EXCEPT !.thrownObjects = << >>,
            !.history = [char |-> s.history.char, objs |-> << >>]]

\* the cleanup the effect returns: projectiles and portals are dropped
Cleanup(s) ==
  [s EXCEPT !.thrownObjects = << >>,
            !.entrancePortals = << >>,
            !.exitPortals = << >>,
            !.history = [char |-> s.history.char, objs |-> << >>]]

\* the body of the effect up to the first animate(): a new camera and new
\* controls, and in infinity mode the seeded spheres
Setup(s, seeds) ==
  LET seeded == IF s.build = "multi" /\ s.universeType = "infinity"
                  THEN seeds ELSE << >>
  IN  [s EXCEPT !.rotation = InitialRotation,
                !.camDir = DefaultCameraDir,
                !.trip = TripFrom(s.universeType, s.characterPosition),
                !.thrownObjects = @ \o seeded,
                !.history = [char |-> s.history.char,
                             objs |-> s.history.objs
                                        \o [i \in 1 .. Len(seeded) |->
                                              NoHistory]]]

\* the effect re-run: cleanup, setup and the first frame, which the effect
\* calls itself
RunEffect(s, seeds, picks) == Frame(Setup(Cleanup(s), seeds), picks)

\* the entities of s that draw a random number in the next frame: the Armed
\* ones of the multi build in reach of a portal that has a counterpart
Draws(s, i) ==
  /\ s.build = "multi"
  /\ s.universeType \in {"portals", "infinity"}
  /\ IF i = 0
       THEN /\ ~s.teleportCooldown
            /\ TriggerMulti(HeadOf(CharacterMoved(s)), s.entrancePortals,
                            s.exitPortals) # "none"
       ELSE /\ s.thrownObjects[i].canTeleport
            /\ TriggerMulti(s.thrownObjects[i].pos, s.entrancePortals,
                            s.exitPortals) # "none"

\* the random numbers one frame may draw, one per entity (1 where the entity
\* draws none)
PickSets(s) ==
  LET most == Max(1, Max(Len(s.entrancePortals), Len(s.exitPortals)))
  IN  { f \in [0 .. Len(s.thrownObjects) -> 1 .. most] :
          \A i \in 0 .. Len(s.thrownObjects) : ~Draws(s, i) => f[i] = 1 }

\* the effect's first frame finds no portal and draws no random number
NoPicks == [i \in 0 .. NumSeeds |-> 1]

\* handleUniverseChange's camera distance for the new mode
DistanceFor(b, m) ==
  IF b = "multi"
    THEN IF m = "wormhole" THEN 15000
         ELSE IF m = "infinity" THEN 35000 ELSE 25000
    ELSE IF m = "my-wormholes" THEN 25000 ELSE 15000

InitialExit == [x |-> 20000, z |-> 20000]

InitialPosition(b) == IF b = "multi" THEN Vec(0, 5000, 5000)
                      ELSE Vec(0, 0, 5000)

InitialConfig == [ballSize |-> 300, universeSize |-> 100000, distance |-> 25000]

\* the state once the component has mounted in the tunnel mode and the
\* effect has drawn its first frame
Mounted(b) ==
  FrameWormhole(
    [build |-> b, universeType |-> "wormhole", config |-> InitialConfig,
     wormholeExit |-> InitialExit, characterPosition |-> InitialPosition(b),
     teleportCooldown |-> FALSE, keysPressed |-> {},
     rotation |-> InitialRotation, camDir |-> DefaultCameraDir, charYaw |-> 0,
     thrownObjects |-> << >>, entrancePortals |-> << >>, exitPortals |-> << >>,
     events |-> [frame |-> FALSE, char |-> NoEvent(Zero3), objs |-> << >>],
     history |-> [char |-> NoHistory, objs |-> << >>],
     trip |-> NoTrip])

Init == \E b \in {"multi", "pair"} :
  /\ build = b
  /\ universeType = Mounted(b).universeType
  /\ config = Mounted(b).config
  /\ wormholeExit = Mounted(b).wormholeExit
  /\ characterPosition = Mounted(b).characterPosition
  /\ teleportCooldown = Mounted(b).teleportCooldown
  /\ keysPressed = Mounted(b).keysPressed
  /\ rotation = Mounted(b).rotation
  /\ camDir = Mounted(b).camDir
  /\ charYaw = Mounted(b).charYaw
  /\ thrownObjects = Mounted(b).thrownObjects
  /\ entrancePortals = Mounted(b).entrancePortals
  /\ exitPortals = Mounted(b).exitPortals
  /\ events = Mounted(b).events
  /\ history = Mounted(b).history
  /\ trip = Mounted(b).trip

\* ------------------------------------------------------------------------
\* Handlers
\* ------------------------------------------------------------------------
\* requestAnimationFrame(animate)
Animate ==
  \E picks \in PickSets(State) : Commit(Frame(State, picks))

\* handleUniverseChange(m), then the effect for the new universeType
Switched(s, m, seeds) ==
  RunEffect([s EXCEPT !.universeType = m,
                      !.config.distance = DistanceFor(s.build, m),
                      !.wormholeExit = InitialExit],
            seeds, NoPicks)

SetUniverseMode(m) ==
  /\ m \in Modes(build)
  /\ m # universeType
  /\ \E seeds \in SeedLists : Commit(Switched(State, m, seeds))

Toggled(keys, k) == IF k \in keys THEN keys \ {k} ELSE keys \cup {k}

\* keysPressed.current[key] = true
Pressed(keys, k) == keys \cup {k}

\* keysPressed.current[key] = false
Released(keys, k) == keys \ {k}

\* the state with the held keys replaced; a new trip starts if they changed
Keyed(s, keys) ==
  IF keys = s.keysPressed THEN s
  ELSE Turned([s EXCEPT !.keysPressed = keys])

\* handleKeyboardDown for a movement key (the key going down, or repeating
\* while it is held)
KeyboardDown(s, k) == Keyed(s, Pressed(s.keysPressed, k))

KeyDown(k) ==
  /\ k \in MoveKeys
  /\ Commit(Quiet(KeyboardDown(State, k)))

\* handleKeyboardUp
KeyboardUp(s, k) == Keyed(s, Released(s.keysPressed, k))

KeyUp(k) ==
  /\ k \in MoveKeys
  /\ Commit(Quiet(KeyboardUp(State, k)))

\* handleMouseDown, handleMouseMove, handleMouseUp: a drag that turns the
\* controls to another modelled orientation
MouseDrag(p, y) ==
  /\ p \in Pitches
  /\ y \in Yaws
  /\ rotation # [x |-> p, y |-> y]
  /\ Commit(Quiet(Turned([State EXCEPT !.rotation = [x |-> p, y |-> y]])))

\* the projectile handleKeyboardDown builds for key 'f'
Projectile(b, m, pos, dir, ballSize) ==
  LET isInfinity == b = "multi" /\ m = "infinity"
      characterHeadPos == HeadOf(pos)
      reach == IF isInfinity THEN 4000 ELSE 1500
      throwSpeed == IF isInfinity THEN 2500 ELSE 800
      toss == IF b = "multi" /\ ~isInfinity THEN 200 ELSE 0
      v == VScale(dir, throwSpeed)
  IN  [pos |-> VAdd(characterHeadPos, VScale(dir, reach)),
       vel |-> [v EXCEPT !.y = @ + toss],
       r |-> IF isInfinity THEN 2000 ELSE ballSize,
       canTeleport |-> TRUE]

\* handleKeyboardDown for key 'f': the pair build throws only in
\* my-wormholes mode, the multi build in every mode
CanThrow(b, m) == b = "pair" => m = "my-wormholes"

Thrown(s) ==
  IF CanThrow(s.build, s.universeType)
    THEN [s EXCEPT
            !.thrownObjects =
               Append(@, Projectile(s.build, s.universeType,
                                    s.characterPosition, s.camDir,
                                    s.config.ballSize)),
            !.history.objs = Append(@, NoHistory)]
    ELSE s

Throw == Commit(Quiet(Thrown(State)))

\* handleKeyboardDown for keys 'p' (entrance) and 'o' (exit)
Portal(pos, yaw) ==
  LET portalPosition == AddScaled(pos, FacingDir(yaw), PortalAhead)
  IN  [pos |-> [portalPosition EXCEPT !.y = RoundDiv(PortalSize, 2)],
       yaw |-> yaw]

\* "universeType === 'portals' && characterRef.current": the character
\* group exists in portals mode; the pair build has no such keys
CanPlaceAnywhere(b, m) == b = "multi"

CanPlace(b, m) == b = "multi" /\ m = "portals"

Placed(s, isEntrance) ==
  IF ~CanPlace(s.build, s.universeType) THEN s
  ELSE IF isEntrance
    THEN [s EXCEPT !.entrancePortals =
                      Append(@, Portal(s.characterPosition, s.charYaw))]
    ELSE [s EXCEPT !.exitPortals =
                      Append(@, Portal(s.characterPosition, s.charYaw))]

PlacePortal(isEntrance) ==
  /\ Len(IF isEntrance THEN entrancePortals ELSE exitPortals) < MaxPortals
  /\ Commit(Quiet(Placed(State, isEntrance)))

\* handleConfigChange({ballSize})
BallSizes == {300, 1000, 1500}

SetBallSizeOfAll(b) ==
  /\ b \in BallSizes
  /\ b # config.ballSize
  /\ Commit(Quiet([State EXCEPT
                     !.config.ballSize = b,
                     !.thrownObjects =
                        [i \in 1 .. Len(@) |-> [@[i] EXCEPT !.r = b]]]))

SetBallSize(b) ==
  /\ b \in BallSizes
  /\ b # config.ballSize
  /\ Commit(Quiet([State EXCEPT !.config.ballSize = b]))

\* handleConfigChange(c) for a call c naming one field: the new value is
\* merged into the configuration; the multi build's effect depends on
\* config.universeSize and runs again when it changes
Merged(cfg, field, v) == [cfg EXCEPT ![field] = v]

ConfigChanged(s, field, v, seeds) ==
  IF s.build = "multi" /\ Merged(s.config, field, v).universeSize
                            # s.config.universeSize
    THEN RunEffect([s EXCEPT !.config = Merged(@, field, v)], seeds, NoPicks)
    ELSE Quiet([s EXCEPT !.config = Merged(@, field, v)])

\* handleConfigChange({universeSize}) (the slider moves in steps of 10)
UniverseSizes == {100 * Scale, 110 * Scale}

SetUniverseSize(u) ==
  /\ build = "multi"
  /\ u \in UniverseSizes
  /\ u # config.universeSize
  /\ \E seeds \in SeedLists :
       Commit(ConfigChanged(State, "universeSize", u, seeds))

\* handleWormholeExitChange (the minimap of the pair build)
ExitSpots == {[x |-> 20000, z |-> 20000], [x |-> 0, z |-> -10000]}

SetWormholeExit(e) ==
  /\ build = "pair"
  /\ universeType = "my-wormholes"
  /\ e \in ExitSpots
  /\ e # wormholeExit
  /\ Commit(Quiet([State EXCEPT !.wormholeExit = e]))

Next ==
  \/ Animate
  \/ \E m \in {"wormhole", "portals", "infinity", "my-wormholes"} :
       SetUniverseMode(m)
  \/ \E k \in MoveKeys : KeyDown(k)
  \/ \E k \in MoveKeys : KeyUp(k)
  \/ \E p \in Pitches, y \in Yaws : MouseDrag(p, y)
  \/ Len(thrownObjects) < MaxThrown + NumSeeds /\ Throw
  \/ PlacePortal(TRUE)
  \/ PlacePortal(FALSE)
  \/ \E b \in BallSizes : SetBallSize(b)
  \/ \E u \in UniverseSizes : SetUniverseSize(u)
  \/ \E e \in ExitSpots : SetWormholeExit(e)

Spec == Init /\ [][Next]_vars

\* ------------------------------------------------------------------------
\* Teleport scenario: the character walks along z among the portals it has
\* placed from where it spawned, and watches the projectiles it throws from
\* there
\* ------------------------------------------------------------------------
\* how far, in world units, the scenarios follow an entity from the spawn
\* point (and, in the pair build, beyond the entrance)
ArenaHalf == 7

SpawnZ == InitialPosition("multi").z

InArena(b, p) ==
  /\ Abs(p.x) <= ArenaHalf * Scale
  /\ p.z <= SpawnZ + ArenaHalf * Scale
  /\ p.z >= (IF b = "pair" THEN -EntranceZ ELSE SpawnZ) - ArenaHalf * Scale

AllInArena(s) ==
  /\ InArena(s.build, s.characterPosition)
  /\ \A i \in 1 .. Len(s.thrownObjects) :
       InArena(s.build, s.thrownObjects[i].pos)

AtSpawn == characterPosition.x = 0 /\ characterPosition.z = SpawnZ

\* the multi build in portals mode, entered after the character flew down
\* to the ground in infinity mode (control held for five frames)
PortalsEntered ==
  RunEffect([Mounted("multi") EXCEPT
               !.universeType = "portals",
               !.config.distance = DistanceFor("multi", "portals"),
               !.characterPosition = Vec(0, 0, SpawnZ)],
            << >>, NoPicks)

\* the pair build switched to my-wormholes mode
PairEntered ==
  RunEffect([Mounted("pair") EXCEPT
               !.universeType = "my-wormholes",
               !.config.distance = DistanceFor("pair", "my-wormholes")],
            << >>, NoPicks)

InitAt(s) ==
  /\ build = s.build
  /\ universeType = s.universeType
  /\ config = s.config
  /\ wormholeExit = s.wormholeExit
  /\ characterPosition = s.characterPosition
  /\ teleportCooldown = s.teleportCooldown
  /\ keysPressed = s.keysPressed
  /\ rotation = s.rotation
  /\ camDir = s.camDir
  /\ charYaw = s.charYaw
  /\ thrownObjects = s.thrownObjects
  /\ entrancePortals = s.entrancePortals
  /\ exitPortals = s.exitPortals
  /\ events = s.events
  /\ history = s.history
  /\ trip = s.trip

\* the portals the character can place from the spawn point, one for each
\* way it faces
SpawnPortal(yaw) == Portal(Vec(0, 0, SpawnZ), yaw)

\* portals placed from the spawn point before the scenario starts
EntranceLayouts ==
  { << >>, << SpawnPortal(0) >>, << SpawnPortal(0), SpawnPortal(3) >> }

ExitLayouts ==
  { << >>, << SpawnPortal(1) >>, << SpawnPortal(2), SpawnPortal(1) >> }

\* the camera left looking along -z (yaw 0) or +z (yaw 2)
PortalsPlaced(entr, exits, yaw) ==
  Frame([PortalsEntered EXCEPT !.entrancePortals = entr,
                               !.exitPortals = exits,
                               !.rotation = [x |-> "tilt", y |-> yaw]],
        [i \in 0 .. 0 |-> 1])

InitTeleport ==
  \/ \E entr \in EntranceLayouts, exits \in ExitLayouts, yaw \in {0, 2} :
       InitAt(PortalsPlaced(entr, exits, yaw))
  \/ InitAt(PairEntered)

AnimateInArena ==
  \E picks \in PickSets(State) :
    /\ AllInArena(Frame(State, picks))
    /\ Commit(Frame(State, picks))

WalkKeys == {"w", "s"}

\* the character walks with one key at a time, before it throws
Walk(k) ==
  /\ keysPressed = {}
  /\ thrownObjects = << >>
  /\ KeyDown(k)

NextTeleport ==
  \/ AnimateInArena
  \/ \E k \in WalkKeys : Walk(k)
  \/ \E k \in WalkKeys : k \in keysPressed /\ KeyUp(k)
  \/ keysPressed = {} /\ AtSpawn /\ Len(thrownObjects) < MaxThrown /\ Throw
  \/ \E e \in ExitSpots : keysPressed = {} /\ AtSpawn /\ SetWormholeExit(e)

SpecTeleport == InitTeleport /\ [][NextTeleport]_vars

\* ------------------------------------------------------------------------
\* Teleport claims
\* ------------------------------------------------------------------------
\* the teleport endpoints of both roles in the current mode
Endpoints ==
  IF build = "multi" THEN PortalPositions(State)
  ELSE IF universeType = "my-wormholes" THEN WormholePositions(State)
  ELSE {}

Threshold == IF build = "multi" THEN TeleportThresholdMulti
             ELSE TeleportThresholdPair

\* the character's head point: its position + 1.5 up
HeadPoint(pos) == [pos EXCEPT !.y = @ + 3 * (Scale \div 2)]

\* no coordinate of p and q differs by more than d
BoxedWithin(p, q, d) ==
  /\ Abs(p.x - q.x) <= d
  /\ Abs(p.y - q.y) <= d
  /\ Abs(p.z - q.z) <= d

SquaredGap(p, q) ==
  (p.x - q.x) * (p.x - q.x) + (p.y - q.y) * (p.y - q.y)
    + (p.z - q.z) * (p.z - q.z)

\* at most d apart, on the exact squares
Within(p, q, d) == BoxedWithin(p, q, d) /\ SquaredGap(p, q) <= d * d

\* less than d apart
StrictlyWithin(p, q, d) == BoxedWithin(p, q, d) /\ SquaredGap(p, q) < d * d

\* C1: an entity that is Cooling becomes Armed in a step only if that step is
\* a frame in which the point it is tested at (the character's head, a
\* projectile's centre) is strictly farther than teleportThreshold + 1 from
\* every endpoint of both roles; otherwise it stays Cooling.
C1_RearmOnlyWhenClear ==
  [][ /\ (teleportCooldown /\ ~teleportCooldown')
           => /\ events'.frame
              /\ events'.char.at = HeadPoint(characterPosition')
              /\ \A q \in Endpoints' :
                   ~Within(HeadPoint(characterPosition'), q, Threshold + Scale)
      /\ \A i \in 1 .. Len(thrownObjects) :
           (/\ i <= Len(thrownObjects')
            /\ ~thrownObjects[i].canTeleport
            /\ thrownObjects'[i].canTeleport)
           => /\ events'.frame
              /\ \A q \in Endpoints' :
                   ~Within(events'.objs[i].at, q, Threshold + Scale) ]_vars

\* C1 witness: a frame has just re-armed the character, which had teleported
C1_Rearmed ==
  /\ events.frame
  /\ events.char.what = "rearm"
  /\ ~teleportCooldown
  /\ history.char.tp > 0

\* C2: a frame that teleports an entity finds it Armed and leaves it Cooling;
\* a frame that finds the character Cooling leaves it where its own movement
\* put it; and an entity that teleports again has, since its last teleport,
\* been tested farther than teleportThreshold + 1 from every endpoint.
C2_NoRetriggerWhileCooling ==
  [][ events'.frame =>
        /\ events'.char.what = "teleport"
             => /\ ~teleportCooldown
                /\ teleportCooldown'
                /\ history.char.tp > 0 => history.char.clr
        /\ teleportCooldown
             => /\ events'.char.what # "teleport"
                /\ events'.char.at = HeadPoint(characterPosition')
        /\ \A i \in 1 .. Len(thrownObjects) :
             i <= Len(thrownObjects') =>
               /\ events'.objs[i].what = "teleport"
                    => /\ thrownObjects[i].canTeleport
                       /\ ~thrownObjects'[i].canTeleport
                       /\ history.objs[i].tp > 0 => history.objs[i].clr
               /\ ~thrownObjects[i].canTeleport
                    => events'.objs[i].what # "teleport" ]_vars

\* C2 witness: a frame has just teleported the character a second time
C2_TeleportedAgain ==
  /\ events.frame
  /\ events.char.what = "teleport"
  /\ teleportCooldown
  /\ history.char.tp = 2

\* the position is the exit's, moved off it by a margin of at most one world
\* unit
OffsetFromExit(pos, exitPosition) ==
  /\ Abs(pos.x - exitPosition.x) <= Scale
  /\ Abs(pos.z - exitPosition.z) <= Scale
  /\ pos.x # exitPosition.x \/ pos.z # exitPosition.z

\* C3: in the wormhole-pair mode, a frame that finds the character Armed and
\* tests its head point within teleportThreshold of the entrance (at most
\* that far from it) relocates the character to the exit position offset by
\* the margin, once: it is not sent back through the exit.
C3_PairedEntranceRelocates ==
  [][ (/\ build = "pair"
       /\ universeType = "my-wormholes"
       /\ events'.frame
       /\ ~teleportCooldown
       /\ Within(events'.char.at, EntrancePosition, TeleportThresholdPair))
      => /\ events'.char.what = "teleport"
         /\ events'.char.via = "entrance"
         /\ OffsetFromExit(characterPosition', ExitPosition(wormholeExit)) ]_vars

\* the position is the portal's, moved off it along the axis the portal
\* faces (either way), by at most two world units
OffAlongFacing(pos, portal) ==
  LET d == VSub(pos, portal.pos)
      f == FacingDir(portal.yaw)
  IN  /\ d # Zero3
      /\ d.y = 0
      /\ d.x * f.z - d.z * f.x = 0
      /\ Abs(d.x) <= 2 * Scale
      /\ Abs(d.z) <= 2 * Scale

InReachOf(ref, portals) ==
  \E i \in 1 .. Len(portals) :
    StrictlyWithin(ref, portals[i].pos, TeleportThresholdMulti)

\* C4: in portals mode, a frame that finds the character Armed with its head
\* within teleportThreshold of an entrance, an exit existing, puts it at the
\* position of an exit offset along the direction that exit faces; within
\* teleportThreshold of an exit only, an entrance existing, at the position
\* of an entrance offset along the direction that entrance faces.
C4_RelocatesAlongFacing ==
  [][ (/\ build = "multi"
       /\ universeType = "portals"
       /\ events'.frame
       /\ ~teleportCooldown)
      => /\ (Len(exitPortals) > 0 /\ InReachOf(events'.char.at, entrancePortals))
              => \E j \in 1 .. Len(exitPortals) :
                   OffAlongFacing(characterPosition', exitPortals[j])
         /\ (/\ Len(entrancePortals) > 0
             /\ ~(Len(exitPortals) > 0
                  /\ InReachOf(events'.char.at, entrancePortals))
             /\ InReachOf(events'.char.at, exitPortals))
              => \E j \in 1 .. Len(entrancePortals) :
                   OffAlongFacing(characterPosition', entrancePortals[j]) ]_vars

\* ------------------------------------------------------------------------
\* Physics scenario: in a ground mode the character stands where it entered
\* the mode and throws, at most one projectile between two frames; the
\* projectiles are followed while they are within Reach of the character
\* ------------------------------------------------------------------------
\* how far, in world units, a projectile is followed from the character
Reach == 6

\* most projectiles thrown in the physics scenarios
MaxBalls == 3

InReach(s) ==
  \A i \in 1 .. Len(s.thrownObjects) :
    /\ Abs(s.thrownObjects[i].pos.x - s.characterPosition.x) <= Reach * Scale
    /\ Abs(s.thrownObjects[i].pos.z - s.characterPosition.z) <= Reach * Scale

AnimateInReach ==
  \E picks \in PickSets(State) :
    /\ InReach(Frame(State, picks))
    /\ Commit(Frame(State, picks))

InitPhysics == InitAt(PortalsEntered) \/ InitAt(PairEntered)

\* the ball-size slider is moved before the first throw
ChooseBallSize(b) == thrownObjects = << >> /\ SetBallSize(b)

\* 'f' pressed once since the last frame
ThrowOnce == events.frame /\ Len(thrownObjects) < MaxBalls /\ Throw

NextPhysics ==
  \/ AnimateInReach
  \/ \E b \in BallSizes : ChooseBallSize(b)
  \/ ThrowOnce

SpecPhysics == InitPhysics /\ [][NextPhysics]_vars

\* 'f' again before the next frame (a second keydown, or the key repeating)
ThrowAgain ==
  /\ ~events.frame
  /\ thrownObjects # << >>
  /\ Len(thrownObjects) < MaxBalls
  /\ Throw

NextRepeat == NextPhysics \/ ThrowAgain

SpecRepeat == InitPhysics /\ [][NextRepeat]_vars

\* ------------------------------------------------------------------------
\* Collision claims
\* ------------------------------------------------------------------------
\* the numerical tolerance of the comparisons below: 0.005 world units
Tolerance == Scale \div 200

\* the modes whose frame runs the projectile physics
PhysicsMode ==
  \/ build = "multi" /\ universeType \in {"portals", "infinity"}
  \/ build = "pair" /\ universeType = "my-wormholes"

\* the modes with a ground plane
GroundMode ==
  \/ build = "multi" /\ universeType = "portals"
  \/ build = "pair" /\ universeType = "my-wormholes"

\* the centres of o1 and o2 are at least the sum of their radii apart
Apart(o1, o2) ==
  ~StrictlyWithin(o1.pos, o2.pos, o1.r + o2.r - Tolerance)

\* C5: after the collision pass of a frame, the centres of every two
\* projectiles of the list are at least the sum of their radii apart.
C5_NoResidualPenetration ==
  (events.frame /\ PhysicsMode)
    => \A i \in 1 .. Len(thrownObjects) :
         \A j \in (i + 1) .. Len(thrownObjects) :
           Apart(thrownObjects[i], thrownObjects[j])

\* C6: a frame that finds two projectiles with coincident centres (and the
\* same velocity, so that the collision pass finds them coincident) leaves
\* their centres distinct and the sum of their radii apart.
C6_CoincidentCentresSeparated ==
  [][ (events'.frame /\ PhysicsMode /\ Len(thrownObjects') = Len(thrownObjects))
      => \A i \in 1 .. Len(thrownObjects) :
           \A j \in (i + 1) .. Len(thrownObjects) :
             (/\ thrownObjects[i].pos = thrownObjects[j].pos
              /\ thrownObjects[i].vel = thrownObjects[j].vel
              /\ events'.objs[i].what = "none"
              /\ events'.objs[j].what = "none")
             => /\ thrownObjects'[i].pos # thrownObjects'[j].pos
                /\ Apart(thrownObjects'[i], thrownObjects'[j])
                /\ Within(thrownObjects'[i].pos, thrownObjects'[j].pos,
                          thrownObjects[i].r + thrownObjects[j].r + Tolerance)
    ]_vars

\* C8: at the end of every frame in a ground mode every projectile's centre
\* is at least groundLevel + radius high, collision separation included.
C8_OnOrAboveGround ==
  (events.frame /\ GroundMode)
    => \A i \in 1 .. Len(thrownObjects) :
         thrownObjects[i].pos.y >= GroundLevel + thrownObjects[i].r

\* ------------------------------------------------------------------------
\* Head-on scenario: two projectiles slide on the ground toward each other
\* along x, in front of the character
\* ------------------------------------------------------------------------
\* the distances between the two centres, the speeds and the radii drawn
HeadOnGaps == {2000, 2500, 3000, 3500, 4000}

HeadOnSpeeds == {500, 1000}

HeadOnRadii == {300, 1000}

Slider(x, v, r) ==
  [pos |-> Vec(x, GroundLevel + r, SpawnZ - 3 * Scale), vel |-> Vec(v, 0, 0),
   r |-> r, canTeleport |-> TRUE]

HeadOn(s, gap, v, r) ==
  Quiet([s EXCEPT
    !.thrownObjects = << Slider(-(gap \div 2), v, r),
                         Slider(gap \div 2, -v, r) >>,
    !.history.objs = << NoHistory, NoHistory >>])

InitHeadOn ==
  \E s \in {PortalsEntered, PairEntered} :
    \E gap \in HeadOnGaps, v \in HeadOnSpeeds, r \in HeadOnRadii :
      InitAt(HeadOn(s, gap, v, r))

NextHeadOn == AnimateInReach

SpecHeadOn == InitHeadOn /\ [][NextHeadOn]_vars

\* a and b have radius 1, move along x toward each other at +1 and -1, and
\* the coming integration takes their centres from 2.0 or more apart to less
\* than 2.0 (and more than 0) apart
HeadOnPair(a, b) ==
  /\ a.r = Scale
  /\ b.r = Scale
  /\ a.pos.y = b.pos.y
  /\ a.pos.z = b.pos.z
  /\ a.vel = Vec(Scale, 0, 0)
  /\ b.vel = Vec(-Scale, 0, 0)
  /\ b.pos.x - a.pos.x >= 2 * Scale
  /\ b.pos.x - a.pos.x - 2 * Scale < 2 * Scale
  /\ b.pos.x - a.pos.x - 2 * Scale > 0

\* C7: two projectiles of radius 1 moving head-on along x at +1 and -1 end
\* the frame in which their centres first come closer than 2.0 with their
\* centres exactly 2.0 apart and each x velocity the negation of what it was.
C7_HeadOnReversal ==
  [][ (events'.frame /\ PhysicsMode /\ Len(thrownObjects) = 2
       /\ Len(thrownObjects') = 2)
      => \A i, j \in 1 .. 2 :
           HeadOnPair(thrownObjects[i], thrownObjects[j])
           => /\ thrownObjects'[j].pos.x - thrownObjects'[i].pos.x = 2 * Scale
              /\ thrownObjects'[i].pos.y = thrownObjects'[j].pos.y
              /\ thrownObjects'[i].pos.z = thrownObjects'[j].pos.z
              /\ thrownObjects'[i].vel.x = -thrownObjects[i].vel.x
              /\ thrownObjects'[j].vel.x = -thrownObjects[j].vel.x ]_vars

\* ------------------------------------------------------------------------
\* Infinity scenario: the character strafes from where it entered the mode,
\* one key at a time, until the displacements of the trip sum to the world
\* size
\* ------------------------------------------------------------------------
InfinityEntered(seeds) ==
  RunEffect([Mounted("multi") EXCEPT
               !.universeType = "infinity",
               !.config.distance = DistanceFor("multi", "infinity")],
            seeds, NoPicks)

InitInfinity == \E seeds \in SeedLists : InitAt(InfinityEntered(seeds))

StrafeKeys == {"a", "d"}

Strafe(k) == keysPressed = {} /\ AtSpawn /\ KeyDown(k)

AnimateTrip == Abs(trip.sum.x) < config.universeSize /\ Animate

NextInfinity ==
  \/ AnimateTrip
  \/ \E k \in StrafeKeys : Strafe(k)
  \/ \E k \in StrafeKeys : k \in keysPressed /\ KeyUp(k)

SpecInfinity == InitInfinity /\ [][NextInfinity]_vars

\* the coordinate c, moved by the keys past the edge of the world by at most
\* one world unit, comes out of the frame as far inside the opposite edge
Carried(c, wrapped, halfWorld) ==
  /\ (c > halfWorld /\ c - halfWorld <= Scale)
       => wrapped = -halfWorld + (c - halfWorld)
  /\ (c < -halfWorld /\ -halfWorld - c <= Scale)
       => wrapped = halfWorld - (-halfWorld - c)

\* C9: in infinity mode, a frame whose movement takes the character's x (or
\* z) to halfWorld + e, e > 0 small, leaves that coordinate at -halfWorld + e,
\* and symmetrically for -halfWorld - e.
C9_WrapCarriesOvershoot ==
  [][ (/\ events'.frame
       /\ build = "multi"
       /\ universeType = "infinity"
       /\ universeType' = "infinity")
      => /\ Carried(characterPosition.x + Displacement(State).x,
                    characterPosition'.x, config.universeSize \div 2)
         /\ Carried(characterPosition.z + Displacement(State).z,
                    characterPosition'.z, config.universeSize \div 2) ]_vars

\* C10: in infinity mode, when the per-frame displacements of a trip in one
\* fixed horizontal direction sum to exactly the world size, the character
\* is back at the coordinate the trip started from.
C10_RoundTrip ==
  (build = "multi" /\ universeType = "infinity" /\ trip.sum.y = 0)
    => /\ (Abs(trip.sum.x) = config.universeSize /\ trip.sum.z = 0)
            => characterPosition.x = trip.from.x
       /\ (Abs(trip.sum.z) = config.universeSize /\ trip.sum.x = 0)
            => characterPosition.z = trip.from.z

\* ------------------------------------------------------------------------
\* Session scenario: from the mounted component the user switches modes,
\* walks forward a little, throws while standing where it started, places
\* portals from there, moves the ball-size slider before anything is thrown
\* and the universe-size slider with no key held; a projectile is followed
\* while it is within Reach of the character
\* ------------------------------------------------------------------------
\* how far, in walking steps, the character is followed from where it
\* started
Stroll == 2

NearStart(b, p) ==
  /\ Abs(p.x - InitialPosition(b).x) <= Stroll * MoveSpeed(FALSE)
  /\ Abs(p.y - InitialPosition(b).y) <= Stroll * MoveSpeed(FALSE)
  /\ Abs(p.z - InitialPosition(b).z) <= Stroll * MoveSpeed(FALSE)

AtStart == characterPosition = InitialPosition(build)

\* t is the frame run on s: the character stays near where it started and
\* every projectile that moved is within reach of it
Followed(s, t) ==
  /\ NearStart(t.build, t.characterPosition)
  /\ \A i \in 1 .. Len(t.thrownObjects) :
       \/ t.thrownObjects[i].pos = s.thrownObjects[i].pos
       \/ /\ Abs(t.thrownObjects[i].pos.x - t.characterPosition.x)
               <= Reach * Scale
          /\ Abs(t.thrownObjects[i].pos.z - t.characterPosition.z)
               <= Reach * Scale

AnimateSession ==
  \E picks \in PickSets(State) :
    /\ Followed(State, Frame(State, picks))
    /\ Commit(Frame(State, picks))

SessionKeys == {"w"}

\* most projectiles thrown in one mode of the session
SessionThrows == 1

\* the projectiles the effect seeded in the current mode
Seeded == IF build = "multi" /\ universeType = "infinity" THEN NumSeeds ELSE 0

NextSession ==
  \/ AnimateSession
  \/ \E m \in {"wormhole", "portals", "infinity", "my-wormholes"} :
       keysPressed = {} /\ SetUniverseMode(m)
  \/ \E k \in SessionKeys : KeyDown(k)
  \/ \E k \in SessionKeys : KeyUp(k)
  \/ AtStart /\ keysPressed = {}
       /\ Len(thrownObjects) < Seeded + SessionThrows /\ Throw
  \/ AtStart /\ PlacePortal(TRUE)
  \/ AtStart /\ PlacePortal(FALSE)
  \/ \E b \in BallSizes : ChooseBallSize(b)
  \/ \E u \in UniverseSizes : keysPressed = {} /\ SetUniverseSize(u)
  \/ \E e \in ExitSpots : SetWormholeExit(e)

SpecSession == Init /\ [][NextSession]_vars

\* ------------------------------------------------------------------------
\* Mode-switch claims
\* ------------------------------------------------------------------------
\* the spheres the effect seeds: never armed, of a seeded radius
IsSeed(o) == ~o.canTeleport /\ o.r \in SeedRadii

C12_SwitchResetsCharacter ==
  [][ universeType' # universeType
      => characterPosition' = InitialPosition(build) ]_vars

\* ------------------------------------------------------------------------
\* Configuration claims
\* ------------------------------------------------------------------------
\* calls of handleConfigChange with a negative ball radius or a non-positive
\* world size (the pair build's configuration has no world size)
InvalidCalls(b) ==
  {<< "ballSize", -Scale >>}
    \cup (IF b = "multi"
            THEN {<< "universeSize", 0 >>, << "universeSize", -100 * Scale >>}
            ELSE {})

\* C13: a configuration call with a negative ball radius or a non-positive
\* world size leaves the stored configuration exactly as it was.
C13_InvalidConfigRejected ==
  \A c \in InvalidCalls(build), seeds \in SeedLists :
    ConfigChanged(State, c[1], c[2], seeds).config = config

\* ------------------------------------------------------------------------
\* Projectile claims
\* ------------------------------------------------------------------------
\* the effect did not run again in this step
SameEffect ==
  /\ universeType' = universeType
  /\ config'.universeSize = config.universeSize

\* C14: in the tunnel mode no step (so no throw) adds a projectile; in the
\* other modes a step that adds to the projectile list adds exactly one
\* projectile, and it is Armed.
C14_ThrowOnlyWhereAllowed ==
  [][ SameEffect
      => /\ universeType = "wormhole"
              => Len(thrownObjects') <= Len(thrownObjects)
         /\ Len(thrownObjects') > Len(thrownObjects)
              => /\ Len(thrownObjects') = Len(thrownObjects) + 1
                 /\ thrownObjects'[Len(thrownObjects')].canTeleport ]_vars

\* ------------------------------------------------------------------------
\* Tunnel scenario: the component stays in the tunnel mode it mounts in; the
\* user turns the camera and, after a frame, presses 'f'.
\* requestAnimationFrame schedules animate again from every frame, so frames
\* never stop coming
\* ------------------------------------------------------------------------
\* animate in the tunnel mode takes the else branch
AnimateTunnel ==
  /\ universeType = "wormhole"
  /\ \E t \in {FrameWormhole(State)} : Commit(t)

NextTunnel ==
  \/ AnimateTunnel
  \/ \E p \in Pitches, y \in Yaws : MouseDrag(p, y)
  \/ events.frame /\ Len(thrownObjects) < SessionThrows /\ Throw

SpecTunnel == Init /\ [][NextTunnel]_vars /\ WF_vars(AnimateTunnel)

\* C15 (expiry): a projectile that exists in the tunnel mode is removed
\* from the list after finitely many frames, with no mode switch.
C15_TunnelProjectilesExpire ==
  (universeType = "wormhole" /\ thrownObjects # << >>)
    ~> (thrownObjects = << >>)

\* ------------------------------------------------------------------------
\* Endpoint claims
\* ------------------------------------------------------------------------
\* list is old with exactly one element appended
OneMore(old, list) ==
  /\ Len(list) = Len(old) + 1
  /\ SubSeq(list, 1, Len(old)) = old

\* C16: in portals mode a placement appends exactly one endpoint to the
\* set of the requested role and leaves the set of the other role as it
\* was; in every other mode a placement leaves both sets as they were.
C16_PlacementOnlyInPortals ==
  \A t \in {Placed(State, TRUE)}, u \in {Placed(State, FALSE)} :
    IF universeType = "portals"
      THEN /\ OneMore(entrancePortals, t.entrancePortals)
           /\ t.exitPortals = exitPortals
           /\ OneMore(exitPortals, u.exitPortals)
           /\ u.entrancePortals = entrancePortals
      ELSE /\ t.entrancePortals = entrancePortals
           /\ t.exitPortals = exitPortals
           /\ u.entrancePortals = entrancePortals
           /\ u.exitPortals = exitPortals

\* portals mode after the placement of one entrance and no exit
C16_EntrancePlaced ==
  /\ universeType = "portals"
  /\ ~events.frame
  /\ Len(entrancePortals) = 1
  /\ exitPortals = << >>

\* every element of old is still in list, in its place
Kept(old, list) ==
  /\ Len(list) >= Len(old)
  /\ SubSeq(list, 1, Len(old)) = old

\* C17: a step that does not change the universe mode (a frame, a key, a
\* throw, a placement, a configuration change, that of the world size
\* included) keeps every placed endpoint in its set, where it was.
C17_EndpointsPersist ==
  [][ universeType' = universeType
      => /\ Kept(entrancePortals, entrancePortals')
         /\ Kept(exitPortals, exitPortals') ]_vars

\* ------------------------------------------------------------------------
\* Radius scenario: in the layouts of the teleport scenario the character
\* stands still and throws, and the ball-size slider is moved once, after a
\* throw (every projectile still has the configured size)
\* ------------------------------------------------------------------------
ResizeAfterThrow(b) ==
  /\ thrownObjects # << >>
  /\ \A i \in DOMAIN thrownObjects : thrownObjects[i].r = config.ballSize
  /\ SetBallSize(b)

NextRadius ==
  \/ AnimateInArena
  \/ Len(thrownObjects) < MaxThrown /\ Throw
  \/ \E b \in BallSizes : ResizeAfterThrow(b)

SpecRadius == InitTeleport /\ [][NextRadius]_vars

\* C18: while the effect does not run again, no step (a frame with its
\* collisions and teleports, a key, a change of the configured ball size)
\* changes the radius of a projectile that exists; a projectile thrown
\* outside infinity mode has the ball size configured when it is thrown.
C18_RadiusFixedAtCreation ==
  [][ SameEffect
      => /\ \A i \in DOMAIN thrownObjects \cap DOMAIN thrownObjects' :
              thrownObjects'[i].r = thrownObjects[i].r
         /\ (Len(thrownObjects') > Len(thrownObjects)
               /\ universeType # "infinity")
              => thrownObjects'[Len(thrownObjects')].r = config.ballSize
    ]_vars

\* a frame has teleported a projectile whose radius is not the ball size
\* configured now, next to a projectile of another radius
C18_ResizedAfterThrow ==
  /\ events.frame
  /\ \E i, j \in DOMAIN thrownObjects :
       /\ events.objs[i].what = "teleport"
       /\ thrownObjects[i].r # config.ballSize
       /\ thrownObjects[j].r # thrownObjects[i].r

\* ------------------------------------------------------------------------
\* Command claim
\* ------------------------------------------------------------------------
\* the camera direction the movement keys follow
Heading(s) ==
  IF s.universeType = "infinity" THEN s.camDir
  ELSE Normalize(Vec(s.camDir.x, 0, s.camDir.z))

\* C19: a keydown of a movement key that is already held, and a keyup of
\* one that is not, leave the state as it is; a second keydown (keyup)
\* changes nothing the first did not; and with 'w' alone pressed twice the
\* coming frame moves the character by moveSpeed along the camera
\* direction, once.
C19_RepeatedCommandIdempotent ==
  \A k \in MoveKeys :
    \A once \in {KeyboardDown(State, k)}, off \in {KeyboardUp(State, k)} :
      /\ KeyboardDown(once, k) = once
      /\ KeyboardUp(off, k) = off
      /\ k \in keysPressed => once = State
      /\ k \notin keysPressed => off = State
      /\ (k = "w" /\ keysPressed \subseteq {"w"} /\ universeType # "wormhole")
           => Displacement(KeyboardDown(once, k))
                = VSub(AddScaled(characterPosition, Heading(State),
                                 MoveSpeed(universeType = "infinity")),
                       characterPosition)

\* a key event has arrived after a frame that moved the character, with
\* 'w' still held
C19_HeldAcrossFrames ==
  /\ "w" \in keysPressed
  /\ ~events.frame
  /\ universeType # "wormhole"
  /\ characterPosition # InitialPosition(build)

\* ------------------------------------------------------------------------
\* Integration claim
\* ------------------------------------------------------------------------
\* projectile i of list overlaps no other projectile of the list
Alone(list, i) ==
  \A j \in DOMAIN list \ {i} : Apart(list[i], list[j])

\* C20: in every mode with throwing (portals, infinity, my-wormholes), a
\* frame leaves a projectile that has a velocity other than zero, is not
\* teleported by the frame and overlaps no other projectile before or after
\* it, at another position than it had.
C20_VelocityMovesProjectile ==
  [][ (events'.frame /\ SameEffect /\ PhysicsMode)
      => \A i \in DOMAIN thrownObjects \cap DOMAIN thrownObjects' :
           (/\ thrownObjects[i].vel # Zero3
            /\ events'.objs[i].what # "teleport"
            /\ Alone(thrownObjects, i)
            /\ Alone(thrownObjects', i))
             => thrownObjects'[i].pos # thrownObjects[i].pos ]_vars

\* ------------------------------------------------------------------------
\* Flight scenario: in a ground mode the user sets the ball size and the
\* camera pitch, throws one projectile, and the frames follow it while it
\* is within FlightRange of the character and, in the pair build, inside
\* the world boundary
\* ------------------------------------------------------------------------
\* how far, in world units, a projectile in flight is followed
FlightRange == 56

\* the sphere at coordinate c does not reach the pair build's boundary
InsideBoundary(b, c, r) == b = "pair" => Abs(c) + r < BoundaryPair

InFlightRange(s) ==
  \A i \in 1 .. Len(s.thrownObjects) :
    /\ Abs(s.thrownObjects[i].pos.x - s.characterPosition.x)
         <= FlightRange * Scale
    /\ Abs(s.thrownObjects[i].pos.z - s.characterPosition.z)
         <= FlightRange * Scale
    /\ InsideBoundary(s.build, s.thrownObjects[i].pos.x, s.thrownObjects[i].r)
    /\ InsideBoundary(s.build, s.thrownObjects[i].pos.z, s.thrownObjects[i].r)

AnimateFlight ==
  \E t \in {Frame(State, NoPicks)} : InFlightRange(t) /\ Commit(t)

\* the camera is pitched before the throw
Pitch(p) == thrownObjects = << >> /\ MouseDrag(p, rotation.y)

ThrowFirst == events.frame /\ thrownObjects = << >> /\ Throw

NextFlight ==
  \/ AnimateFlight
  \/ \E p \in Pitches : Pitch(p)
  \/ \E b \in BallSizes : ChooseBallSize(b)
  \/ ThrowFirst

SpecFlight == InitPhysics /\ [][NextFlight]_vars

\* ------------------------------------------------------------------------
\* Gravity and ground claims
\* ------------------------------------------------------------------------
\* projectile i of list is more than two world units (a frame moves a
\* projectile by less than one) from touching any other
Clear(list, i) ==
  \A j \in DOMAIN list \ {i} :
    ~BoxedWithin(list[i].pos, list[j].pos,
                 list[i].r + list[j].r + 2 * Scale)

\* the velocity of o after the gravity rule: 0.01 downward only while the
\* centre is strictly above groundLevel + radius
Pulled(o) ==
  IF o.pos.y > GroundLevel + o.r THEN [o.vel EXCEPT !.y = @ - GravityY]
  ELSE o.vel

\* the frame neither teleports projectile i nor brings it near another
Undisturbed(i) ==
  /\ events'.frame
  /\ SameEffect
  /\ GroundMode
  /\ i \in DOMAIN thrownObjects \cap DOMAIN thrownObjects'
  /\ events'.objs[i].what # "teleport"
  /\ thrownObjects'[i].canTeleport = thrownObjects[i].canTeleport
  /\ Clear(thrownObjects, i)
  /\ Clear(thrownObjects', i)

\* C21: in a ground mode, a frame that neither teleports a projectile nor
\* brings it near another one moves it by its velocity after the gravity
\* rule (x and z unless the pair build's boundary clamps them, y unless
\* the ground clamps it), and leaves it that vertical velocity when the
\* ground is not touched;
\* a projectile at exactly groundLevel + radius gets no gravity.
C21_GravityThenPosition ==
  [][ \A i \in DOMAIN thrownObjects :
        Undisturbed(i)
          => \A o \in {thrownObjects[i]}, v \in {Pulled(thrownObjects[i])} :
               /\ (/\ InsideBoundary(build, o.pos.x + v.x, o.r)
                   /\ InsideBoundary(build, o.pos.z + v.z, o.r))
                    => /\ thrownObjects'[i].pos.x = o.pos.x + v.x
                       /\ thrownObjects'[i].pos.z = o.pos.z + v.z
               /\ o.pos.y + v.y >= GroundLevel + o.r
                    => /\ thrownObjects'[i].pos.y = o.pos.y + v.y
                       /\ thrownObjects'[i].vel.y = v.y
               /\ (o.pos.y = GroundLevel + o.r /\ o.vel.y >= 0)
                    => /\ thrownObjects'[i].vel.y = o.vel.y
                       /\ thrownObjects'[i].pos.y = o.pos.y + o.vel.y
    ]_vars

\* a projectile lies at exactly groundLevel + radius, away from the others,
\* and the coming frame, which the scenario follows, leaves it its vertical
\* velocity
C21_RestingGetsNoGravity ==
  /\ GroundMode
  /\ events.frame
  /\ \E i \in DOMAIN thrownObjects :
       /\ thrownObjects[i].pos.y = GroundLevel + thrownObjects[i].r
       /\ thrownObjects[i].vel # Zero3
       /\ Clear(thrownObjects, i)
       /\ \E t \in {Frame(State, NoPicks)} :
            /\ InFlightRange(t)
            /\ t.thrownObjects[i].vel.y = thrownObjects[i].vel.y

\* a is smaller in magnitude than b, or both are below the tolerance
Damped(a, b) == Abs(a) < Abs(b) \/ Abs(b) <= Tolerance

\* C22: in a ground mode, a frame whose integration takes a projectile's
\* lowest point below the ground (and that neither teleports it nor brings
\* it near another) leaves its vertical velocity multiplied by -0.3, and 0
\* if that is less than 0.05 in magnitude, and leaves its x and z
\* velocities smaller in magnitude than they were.
C22_GroundContactDamps ==
  [][ \A i \in DOMAIN thrownObjects :
        Undisturbed(i)
          => \A o \in {thrownObjects[i]}, v \in {Pulled(thrownObjects[i])} :
               o.pos.y + v.y < GroundLevel + o.r
                 => /\ thrownObjects'[i].vel.y = Bounce(v.y)
                    /\ Damped(thrownObjects'[i].vel.x, v.x)
                    /\ Damped(thrownObjects'[i].vel.z, v.z)
    ]_vars

\* ------------------------------------------------------------------------
\* Edge scenario: infinity mode is entered with the seeded spheres close to
\* the +x edge of the world; the character strafes from where it entered,
\* releases the key and throws
\* ------------------------------------------------------------------------
\* where the effect happened to seed sphere i: half a world unit inside the
\* edge, beside the line the character strafes along
EdgeSeeds ==
  [i \in 1 .. NumSeeds |->
     Seed(1000, Vec(HalfWorld(InitialConfig.universeSize) - Scale \div 2,
                    7000 + 8000 * (i - 1), 1000))]

InitEdge == InitAt(InfinityEntered(EdgeSeeds))

ThrowStanding ==
  /\ keysPressed = {}
  /\ events.frame
  /\ Len(thrownObjects) < NumSeeds + 1
  /\ Throw

NextEdge ==
  \/ AnimateTrip
  \/ \E k \in StrafeKeys : Strafe(k)
  \/ \E k \in StrafeKeys : k \in keysPressed /\ KeyUp(k)
  \/ ThrowStanding

SpecEdge == InitEdge /\ [][NextEdge]_vars

\* p has x and z in [-halfWorld, halfWorld]
InWorld(p, halfWorld) ==
  /\ Abs(p.x) <= halfWorld
  /\ Abs(p.z) <= halfWorld

\* q is no farther from p, along any axis, than a collision of projectile
\* i of list with another can push it
WithinPush(p, q, list, i) ==
  \E j \in DOMAIN list : BoxedWithin(p, q, list[i].r + list[j].r)

\* C23 (order): in infinity mode the wrap of a projectile comes before the
\* collisions of the frame, so a projectile at rest inside the world, which
\* neither integration nor the wrap moves, leaves the frame where a
\* collision push can take it: it is not carried to the opposite edge
\* after a collision has displaced it.
C23_WrapBeforeCollision ==
  [][ (events'.frame /\ SameEffect /\ universeType = "infinity")
      => \A i \in DOMAIN thrownObjects \cap DOMAIN thrownObjects' :
           (/\ thrownObjects[i].vel = Zero3
            /\ InWorld(thrownObjects[i].pos, HalfWorld(config.universeSize)))
             => WithinPush(thrownObjects[i].pos, thrownObjects'[i].pos,
                           thrownObjects, i) ]_vars

\* ------------------------------------------------------------------------
\* Descent scenario: the user switches modes with no key held and flies up
\* and down with shift and control; the character is followed down to Depth
\* world units below the ground and up to its starting height
\* ------------------------------------------------------------------------
Depth == 2

FlyKeys == {"shift", "control"}

AnimateDescent ==
  \E picks \in PickSets(State) :
    \E t \in {Frame(State, picks)} :
      /\ t.characterPosition.y >= GroundLevel - Depth * Scale
      /\ t.characterPosition.y <= InitialPosition(build).y
      /\ Commit(t)

NextDescent ==
  \/ AnimateDescent
  \/ \E m \in {"wormhole", "portals", "infinity", "my-wormholes"} :
       keysPressed = {} /\ SetUniverseMode(m)
  \/ \E k \in FlyKeys : keysPressed = {} /\ KeyDown(k)
  \/ \E k \in FlyKeys : k \in keysPressed /\ KeyUp(k)

SpecDescent == Init /\ [][NextDescent]_vars

\* C24: in portals mode, after every frame the character's height is at
\* least the minimum height (the ground level at the lowest), whatever its
\* height was when the mode was entered.
C24_PortalsHeightClamped ==
  (universeType = "portals" /\ events.frame)
    => characterPosition.y >= GroundLevel

\* ------------------------------------------------------------------------
\* Approach scenario: a fresh session of either build, switched to portals
\* mode or to my-wormholes mode.  In the multi build the user places portals
\* from where the character starts and walks it forward and backward, up to Approach world
\* units from there; in the pair build the user walks the character between
\* where it starts and the entrance wormhole, and Approach units beyond
\* ------------------------------------------------------------------------
Approach == 4

\* the place the character is walked to
Goal(b) == IF b = "pair" THEN EntrancePosition ELSE InitialPosition(b)

Between(c, a, b) ==
  /\ c >= Min(a, b) - Approach * Scale
  /\ c <= Max(a, b) + Approach * Scale

WithinApproach(s) ==
  /\ Between(s.characterPosition.x, InitialPosition(s.build).x,
             Goal(s.build).x)
  /\ Between(s.characterPosition.z, InitialPosition(s.build).z,
             Goal(s.build).z)

AnimateApproach ==
  \E picks \in PickSets(State) :
    \E t \in {Frame(State, picks)} : WithinApproach(t) /\ Commit(t)

\* the switch from the opening mode to the mode with portals or wormholes
EnterGroundMode ==
  /\ universeType = "wormhole"
  /\ \E m \in {"portals", "my-wormholes"} : SetUniverseMode(m)

NextApproach ==
  \/ AnimateApproach
  \/ EnterGroundMode
  \/ \E k \in WalkKeys : keysPressed = {} /\ KeyDown(k)
  \/ \E k \in WalkKeys : k \in keysPressed /\ KeyUp(k)
  \/ AtStart /\ PlacePortal(TRUE)
  \/ AtStart /\ PlacePortal(FALSE)

SpecApproach == Init /\ [][NextApproach]_vars

\* the character stands where portal stands: same x and z
StandsAt(pos, portal) == pos.x = portal.pos.x /\ pos.z = portal.pos.z

\* C25: from a fresh session switched to portals mode the character can be
\* teleported by portals-mode actions.  The nearest these actions bring
\* the character to a portal is the portal's own place on the ground plane
\* (they never change its height), so a frame that finds the Armed
\* character standing at the place of an entrance portal, an exit portal
\* existing, teleports it.
C25_TeleportAtPortal ==
  [][ (/\ events'.frame
       /\ universeType = "portals" /\ universeType' = "portals"
       /\ ~teleportCooldown
       /\ exitPortals # << >>
       /\ \E i \in DOMAIN entrancePortals :
            StandsAt([x |-> events'.char.at.x, z |-> events'.char.at.z],
                     entrancePortals[i]))
      => events'.char.what = "teleport" ]_vars

\* C26: in the pair build the character can be walked from where it starts
\* to within teleportThreshold of the entrance and is teleported to the exit.
\* Walking never changes the character's height, so the place of the
\* entrance on the ground plane is the nearest it comes: a frame that finds
\* the Armed character standing there teleports it through the entrance.
C26_TeleportAtEntrance ==
  [][ (/\ events'.frame
       /\ build = "pair"
       /\ ~teleportCooldown
       /\ events'.char.at.x = EntrancePosition.x
       /\ events'.char.at.z = EntrancePosition.z)
      => (events'.char.what = "teleport" /\ events'.char.via = "entrance")
    ]_vars

\* ------------------------------------------------------------------------
\* Collision impulse
\* ------------------------------------------------------------------------
\* the projectile as the collision loop of the coming frame finds it, when
\* the frame does not teleport it
Integrated(o) == IF build = "multi" THEN IntegrateMulti(o) ELSE IntegratePair(o)

Overlapping(o1, o2) == Shorter(VSub(o1.pos, o2.pos), o1.r + o2.r)

Approaching(o1, o2) ==
  ApproachSpeed(o1, o2, Normalize(VSub(o1.pos, o2.pos))) < 0

\* the two projectiles of the list meet in the coming frame's collision loop
Meeting(list) ==
  /\ GroundMode
  /\ Len(list) = 2
  /\ Overlapping(Integrated(list[1]), Integrated(list[2]))

\* a frame with two projectiles, neither teleported, resolved one overlap
ResolvedOne ==
  /\ events'.frame
  /\ SameEffect
  /\ Meeting(thrownObjects)
  /\ Len(thrownObjects') = 2
  /\ \A i \in 1 .. 2 : events'.objs[i].what # "teleport"

\* C27: the resolution of an overlapping pair leaves the sum of the two
\* velocities unchanged; when the pair is not approaching it leaves both
\* velocities unchanged and moves each centre by half the overlap, the
\* midpoint of the centres staying where it was.
C27_ImpulseConservesMomentum ==
  [][ ResolvedOne =>
      LET a == Integrated(thrownObjects[1])
          b == Integrated(thrownObjects[2])
          a1 == thrownObjects'[1]
          b1 == thrownObjects'[2]
          overlap == a.r + b.r - Length(VSub(a.pos, b.pos))
      IN  /\ VAdd(a1.vel, b1.vel) = VAdd(a.vel, b.vel)
          /\ ~Approaching(a, b)
               => /\ a1.vel = a.vel
                  /\ b1.vel = b.vel
                  /\ VAdd(a1.pos, b1.pos) = VAdd(a.pos, b.pos)
                  /\ Abs(2 * Length(VSub(a1.pos, a.pos)) - overlap)
                       <= Tolerance
                  /\ Abs(2 * Length(VSub(b1.pos, b.pos)) - overlap)
                       <= Tolerance ]_vars

\* ------------------------------------------------------------------------
\* Landing: the flight scenario with the animation loop kept running
\* (requestAnimationFrame re-arms itself in every frame)
\* ------------------------------------------------------------------------
SpecLanding == InitPhysics /\ [][NextFlight]_vars /\ WF_vars(AnimateFlight)

\* the projectile lies on the ground with no vertical velocity
AtRest(o) == o.vel.y = 0 /\ o.pos.y = GroundLevel + o.r

Landed == thrownObjects # << >> /\ AtRest(thrownObjects[1])

\* C28: in a ground mode a thrown projectile that meets no other has, after
\* finitely many frames, vertical velocity 0 and its centre at exactly
\* groundLevel + radius, and keeps both in every later frame.
C28_ComesToRest == (thrownObjects # << >>) ~> []Landed

\* a projectile at rest on the ground that is still sliding
C28_RestsWhileSliding ==
  /\ GroundMode
  /\ events.frame
  /\ Landed
  /\ thrownObjects[1].vel # Zero3
  /\ history.objs[1].tp = 0

\* ------------------------------------------------------------------------
\* Leak scenario: the descent scenario, and in portals mode the user places
\* one entrance and one exit portal from where the character started on the
\* ground plane and walks the character, up to Approach world units away
\* ------------------------------------------------------------------------
AnimateLeak ==
  \E picks \in PickSets(State) :
    \E t \in {Frame(State, picks)} :
      /\ t.characterPosition.y >= GroundLevel - Depth * Scale
      /\ t.characterPosition.y <= InitialPosition(build).y
      /\ WithinApproach(t)
      /\ Commit(t)

\* the character is above or below the place where it started
OverStart ==
  /\ characterPosition.x = InitialPosition(build).x
  /\ characterPosition.z = InitialPosition(build).z

WalkInPortals(k) ==
  /\ universeType = "portals"
  /\ keysPressed = {}
  /\ KeyDown(k)

PlaceFirst(isEntrance) ==
  /\ OverStart
  /\ (IF isEntrance THEN entrancePortals ELSE exitPortals) = << >>
  /\ PlacePortal(isEntrance)

NextLeak ==
  \/ AnimateLeak
  \/ \E m \in {"wormhole", "portals", "infinity", "my-wormholes"} :
       keysPressed = {} /\ SetUniverseMode(m)
  \/ \E k \in FlyKeys : universeType = "infinity" /\ keysPressed = {}
                          /\ KeyDown(k)
  \/ \E k \in WalkKeys : WalkInPortals(k)
  \/ \E k \in FlyKeys \cup WalkKeys : k \in keysPressed /\ KeyUp(k)
  \/ PlaceFirst(TRUE)
  \/ PlaceFirst(FALSE)

SpecLeak == Init /\ [][NextLeak]_vars

\* C29: immediately after any switch of the universe mode the character is
\* Armed (its teleport cooldown is off), even if it was Cooling when the
\* switch happened.
C29_SwitchRearms ==
  [][ universeType' # universeType => ~teleportCooldown' ]_vars

\* C30: at the end of every frame of infinity mode the character and every
\* projectile have x and z in [-halfWorld, halfWorld], whatever the
\* movement, the throws and the collision pushes before.
C30_InfinityBounds ==
  (universeType = "infinity" /\ events.frame)
    => /\ InWorld(characterPosition, HalfWorld(config.universeSize))
       /\ \A i \in DOMAIN thrownObjects :
            InWorld(thrownObjects[i].pos, HalfWorld(config.universeSize))

\* a frame of infinity mode has just carried a projectile from the positive
\* side of the world to its negative edge
C30_CarriedAcross ==
  /\ universeType = "infinity"
  /\ events.frame
  /\ \E i \in DOMAIN thrownObjects :
       /\ thrownObjects[i].pos.x = -HalfWorld(config.universeSize)
       /\ events.objs[i].at.x > 0

====
